---- MODULE Spec2Model ----
(***************************************************************************)
(* Model of webex_assistant_sdk/helpers.py: validate_request (inbound      *)
(* envelope validation), make_request and make_health_check (signed        *)
(* outbound calls with a challenge echo).  Each call runs in a call slot;  *)
(* the stages of a call are the actions of the model.                      *)
(***************************************************************************)
EXTENDS Naturals, Sequences, FiniteSets, TLC

VARIABLES op, pc, args, local, raised, outcome, trace

vars == <<op, pc, args, local, raised, outcome, trace>>

\* Number of call slots (calls that the embedding program may have issued).
MaxCalls == 2

Slots == 1 .. MaxCalls

(***************************************************************************)
(* Python values.  A value is a record of a type tag t, a string s and a   *)
(* dict body d; "missing" is the absence of a key in a dict.               *)
(***************************************************************************)
EmptyDict == [k \in {} |-> ""]

PyVal(t, s, d) == [t |-> t, s |-> s, d |-> d]

PyNone == PyVal("none", "", EmptyDict)

Missing == PyVal("missing", "", EmptyDict)

PyStr(s) == PyVal("str", s, EmptyDict)

PyInt(s) == PyVal("int", s, EmptyDict)

PyList(s) == PyVal("list", s, EmptyDict)

PyDict(d) == PyVal("dict", "", d)

\* `v is not None` in place of the truth value.
Truthy_IsNotNone(v) == v.t \notin {"none", "missing"}

\* bool(v) as Python's `not v` / `v or ...` evaluates it.
Truthy(v) ==
    ~ \/ v.t \in {"none", "missing"}
      \/ v.t \in {"str", "list"} /\ v.s = ""
      \/ v.t = "int" /\ v.s = "0"
      \/ v.t = "dict" /\ DOMAIN v.d = {}

(***************************************************************************)
(* JSON documents: a type tag and, for an object, its fields.  The keys    *)
(* are those helpers.py reads or writes; a key that is not in the object   *)
(* maps to Missing.                                                        *)
(***************************************************************************)
DocKeys ==
    {"challenge", "text", "context", "params", "frame", "history", "directives"}

NoFields == [k \in DocKeys |-> Missing]

JObject(f) == [t |-> "dict", f |-> f]

JOther(t) == [t |-> t, f |-> NoFields]

Fields(challenge, text) ==
    [NoFields EXCEPT !["challenge"] = challenge, !["text"] = text]

\* A lookup of the wrong key.
Get_WrongKey(doc, key) == IF doc.f["text"].t = "missing" THEN PyNone ELSE doc.f["text"]

\* dict.get(key): None for a key that is not there.
Get(doc, key) == IF doc.f[key].t = "missing" THEN PyNone ELSE doc.f[key]

(***************************************************************************)
(* Strings with structure.  A JSON text is the document it parses to, or   *)
(* a text that does not parse.  A message text is a ciphertext for a key,  *)
(* a corrupt ciphertext, or a plaintext taken as it is.                    *)
(***************************************************************************)
NotJson == [json |-> FALSE, doc |-> JOther("none")]

\* json.dumps(doc)
json_dumps(doc) == [json |-> TRUE, doc |-> doc]

\* What the platform does to build `message`; helpers.py only decrypts.
Encrypted(key, plain) == [layer |-> "cipher", key |-> key, pt |-> plain]

Corrupt == [layer |-> "corrupt", key |-> "", pt |-> NotJson]

AsMessage(plain) == [layer |-> "plain", key |-> "", pt |-> plain]

\* str.encode("utf-8")
Utf8(text) == [utf8 |-> text]

\* The keyed signature of `bytes` under `secret`.
Sign(secret, bytes) == [secret |-> secret, data |-> bytes]

GarbageSig == [secret |-> "", data |-> Utf8(Corrupt)]

\* crypto.verify_signature: TRUE when it returns, FALSE when it raises
\* InvalidSignature.
verify_signature(secret, bytes, sig_bytes) == sig_bytes = Sign(secret, bytes)

\* crypto.decrypt succeeds on a ciphertext made for the private key.
CanDecrypt(private_key, text) == text.layer = "cipher" /\ text.key = private_key

decrypt(private_key, text) == text.pt

(***************************************************************************)
(* Envelope fields.  t is "missing" (no such key), "empty" (the string     *)
(* ""), "int" (a non-zero number) or "str"; pad tells whether a string has *)
(* correct base64 padding; v is what the string encodes.                   *)
(***************************************************************************)
Field(t, pad, v) == [t |-> t, pad |-> pad, v |-> v]

b64encode(bytes) == Field("str", TRUE, bytes)

BadPadding(bytes) == Field("str", FALSE, bytes)

b64decode(field) == field.v

FieldTruthy(field) == field.t \in {"int", "str"}

\* json_body.get(key, ''): the empty string for a key that is not there.
GetOrEmpty(field, empty) == IF field.t = "missing" THEN empty ELSE field

EmptySig == Field("empty", TRUE, GarbageSig)

EmptyMsg == Field("empty", TRUE, Corrupt)

Envelope(t, signature, message) ==
    [t |-> t, signature |-> signature, message |-> message]

NoEnvelope == Envelope("list", EmptySig, EmptyMsg)

Body(t, json, doc) == [t |-> t, json |-> json, doc |-> doc]

\* `body is None` in place of `not body`.
BodyTruthy_NotNone(body) == body.t # "none"

\* `not body` is false for a non-empty str or bytes.
BodyTruthy(body) == body.t = "str"

(***************************************************************************)
(* Exceptions: a kind (the class), a message and the kind of the cause     *)
(* (`raise ... from exc`).                                                 *)
(***************************************************************************)
Err(kind, msg, cause) == [kind |-> kind, msg |-> msg, cause |-> cause]

NoErr == Err("", "", "")

\* The classes that are RequestValidationError or derive from it.
RequestValidationErrors ==
    {"RequestValidationError", "SignatureValidationError",
     "ServerChallengeValidationError"}

IsRequestValidationError(e) == e.kind \in RequestValidationErrors

(***************************************************************************)
(* The state of a call slot.                                               *)
(***************************************************************************)
NoDoc == JOther("none")

Running == [st |-> "running", err |-> NoErr, value |-> NoDoc, challenge |-> PyNone]

Returned(value, challenge) ==
    [st |-> "returned", err |-> NoErr, value |-> value, challenge |-> challenge]

\* A failure that is swallowed: the call returns (None, None).
Raised_ReturnsNone(e) == Returned(NoDoc, PyNone)

Raised(e) == [st |-> "raised", err |-> e, value |-> NoDoc, challenge |-> PyNone]

Event(call, ok) == [call |-> call, ok |-> ok]

IdleArgs == [secret |-> ""]

IdleLocal == [challenge |-> PyNone]

Idle(i) == op[i] = "idle"

\* The locals of validate_request before any of them is assigned.
ValidateLocal ==
    [json_body |-> NoEnvelope,
     encoded_signature |-> EmptySig,
     encoded_cipher |-> EmptyMsg,
     encoded_cipher_bytes |-> Utf8(Corrupt),
     decoded_sig_bytes |-> GarbageSig,
     decrypted_body |-> NotJson,
     request_json |-> NoDoc,
     challenge |-> PyNone]

(***************************************************************************)
(* validate_request                                                        *)
(***************************************************************************)
\* A handler without the catch-all clause: every exception escapes as it is.
except_clause_NoCatchAll(e) == e

\* A handler without `except RequestValidationError: raise`: every exception
\* is wrapped.
except_clause_WrapAll(e) ==
    Err("RequestValidationError", "Cannot validate request", e.kind)

\* The except clauses of validate_request: a RequestValidationError (or a
\* subclass) is re-raised as it is, any other exception is replaced by a
\* RequestValidationError whose cause it is.
except_clause(e) ==
    IF IsRequestValidationError(e)
    THEN e
    ELSE Err("RequestValidationError", "Cannot validate request", e.kind)

\* logger.exception runs in the `except Exception` clause only.
except_log(e) ==
    IF IsRequestValidationError(e) THEN <<>> ELSE <<Event("logger.exception", TRUE)>>

\* A wrong order: the message is decrypted before its signature is verified.
NextStage_DecryptFirst(stage) ==
    CASE stage = "EnvelopeParse" -> "Decrypt"
      [] stage = "Decrypt" -> "SignatureVerify"
      [] stage = "SignatureVerify" -> "PayloadParse"
      [] stage = "PayloadParse" -> "ChallengeExtract"
      [] OTHER -> "done"

\* The order of the statements of the try block: the stage that runs when
\* `stage` has passed.
NextStage(stage) ==
    CASE stage = "EnvelopeParse" -> "SignatureVerify"
      [] stage = "SignatureVerify" -> "Decrypt"
      [] stage = "Decrypt" -> "PayloadParse"
      [] stage = "PayloadParse" -> "ChallengeExtract"
      [] OTHER -> "done"

\* No short circuit: the exception is noted and the next statement runs.
RaiseInTry_Continue(i, e, events) ==
    /\ raised' = [raised EXCEPT ![i] = e]
    /\ trace' = [trace EXCEPT ![i] = @ \o events]
    /\ pc' = [pc EXCEPT ![i] = NextStage(pc[i])]
    /\ UNCHANGED outcome

\* An exception `e` is raised inside the try block, after the calls `events`.
RaiseInTry(i, e, events) ==
    /\ raised' = [raised EXCEPT ![i] = e]
    /\ outcome' = [outcome EXCEPT ![i] = Raised(except_clause(e))]
    /\ trace' = [trace EXCEPT ![i] = @ \o events \o except_log(e)]
    /\ pc' = [pc EXCEPT ![i] = "done"]

CallValidateRequest(i, secret, private_key, body) ==
    /\ Idle(i)
    /\ op' = [op EXCEPT ![i] = "validate_request"]
    /\ pc' = [pc EXCEPT ![i] = "EnvelopeParse"]
    /\ args' = [args EXCEPT ![i] =
                   [secret |-> secret, private_key |-> private_key, body |-> body]]
    /\ local' = [local EXCEPT ![i] = ValidateLocal]
    /\ UNCHANGED <<raised, outcome, trace>>

EnvelopeParse(i) ==
    /\ op[i] = "validate_request"
    /\ pc[i] = "EnvelopeParse"
    /\ LET body == args[i].body
           json_body == body.doc
           encoded_signature == GetOrEmpty(json_body.signature, EmptySig)
           encoded_cipher == GetOrEmpty(json_body.message, EmptyMsg)
       IN  IF ~BodyTruthy(body)
           THEN /\ RaiseInTry(i, Err("SignatureValidationError", "Missing body", ""), <<>>)
                /\ UNCHANGED local
           ELSE IF ~body.json
           THEN /\ RaiseInTry(i, Err("JSONDecodeError", "", ""), <<>>)
                /\ UNCHANGED local
           ELSE IF json_body.t # "dict"
           THEN /\ RaiseInTry(i, Err("AttributeError", "get", ""), <<>>)
                /\ local' = [local EXCEPT ![i].json_body = json_body]
           ELSE IF ~FieldTruthy(encoded_signature)
           THEN /\ RaiseInTry(i, Err("SignatureValidationError", "Missing signature", ""), <<>>)
                /\ local' = [local EXCEPT ![i].json_body = json_body,
                                          ![i].encoded_signature = encoded_signature,
                                          ![i].encoded_cipher = encoded_cipher]
           ELSE IF ~FieldTruthy(encoded_cipher)
           THEN /\ RaiseInTry(i, Err("SignatureValidationError", "Missing message", ""), <<>>)
                /\ local' = [local EXCEPT ![i].json_body = json_body,
                                          ![i].encoded_signature = encoded_signature,
                                          ![i].encoded_cipher = encoded_cipher]
           ELSE /\ local' = [local EXCEPT ![i].json_body = json_body,
                                          ![i].encoded_signature = encoded_signature,
                                          ![i].encoded_cipher = encoded_cipher]
                /\ pc' = [pc EXCEPT ![i] = NextStage("EnvelopeParse")]
                /\ UNCHANGED <<raised, outcome, trace>>
    /\ UNCHANGED <<op, args>>

\* The bytes of the plaintext inside the message, in place of those of the
\* message as received.
EncodedCipherBytes_Plaintext(encoded_cipher) == Utf8(AsMessage(encoded_cipher.v.pt))

\* Line 54: encoded_cipher.encode("utf-8")
EncodedCipherBytes(encoded_cipher) == Utf8(encoded_cipher.v)

SignatureVerify(i) ==
    /\ op[i] = "validate_request"
    /\ pc[i] = "SignatureVerify"
    /\ LET encoded_cipher == local[i].encoded_cipher
           encoded_signature == local[i].encoded_signature
           encoded_cipher_bytes == EncodedCipherBytes(encoded_cipher)
           decoded_sig_bytes == b64decode(encoded_signature)
       IN  IF encoded_cipher.t = "int"
           THEN /\ RaiseInTry(i, Err("AttributeError", "encode", ""), <<>>)
                /\ UNCHANGED local
           ELSE IF encoded_signature.t = "int"
           THEN /\ RaiseInTry(i, Err("TypeError", "b64decode", ""), <<>>)
                /\ local' = [local EXCEPT ![i].encoded_cipher_bytes = encoded_cipher_bytes]
           ELSE IF ~encoded_signature.pad
           THEN /\ RaiseInTry(i, Err("binascii.Error", "Incorrect padding", ""), <<>>)
                /\ local' = [local EXCEPT ![i].encoded_cipher_bytes = encoded_cipher_bytes]
           ELSE IF ~verify_signature(args[i].secret, encoded_cipher_bytes, decoded_sig_bytes)
           THEN /\ RaiseInTry(i, Err("SignatureValidationError", "Invalid signature",
                                     "InvalidSignature"),
                              <<Event("verify_signature", FALSE)>>)
                /\ local' = [local EXCEPT ![i].encoded_cipher_bytes = encoded_cipher_bytes,
                                          ![i].decoded_sig_bytes = decoded_sig_bytes]
           ELSE /\ local' = [local EXCEPT ![i].encoded_cipher_bytes = encoded_cipher_bytes,
                                          ![i].decoded_sig_bytes = decoded_sig_bytes]
                /\ trace' = [trace EXCEPT ![i] = Append(@, Event("verify_signature", TRUE))]
                /\ pc' = [pc EXCEPT ![i] = NextStage("SignatureVerify")]
                /\ UNCHANGED <<raised, outcome>>
    /\ UNCHANGED <<op, args>>

Decrypt(i) ==
    /\ op[i] = "validate_request"
    /\ pc[i] = "Decrypt"
    /\ LET encoded_cipher == local[i].encoded_cipher
       IN  IF ~CanDecrypt(args[i].private_key, encoded_cipher.v)
           THEN /\ RaiseInTry(i, Err("DecryptError", "", ""), <<Event("decrypt", FALSE)>>)
                /\ UNCHANGED local
           ELSE /\ local' = [local EXCEPT ![i].decrypted_body =
                                 decrypt(args[i].private_key, encoded_cipher.v)]
                /\ trace' = [trace EXCEPT ![i] = Append(@, Event("decrypt", TRUE))]
                /\ pc' = [pc EXCEPT ![i] = NextStage("Decrypt")]
                /\ UNCHANGED <<raised, outcome>>
    /\ UNCHANGED <<op, args>>

PayloadParse(i) ==
    /\ op[i] = "validate_request"
    /\ pc[i] = "PayloadParse"
    /\ LET decrypted_body == local[i].decrypted_body
       IN  IF ~decrypted_body.json
           THEN /\ RaiseInTry(i, Err("RequestValidationError", "Invalid request data",
                                     "JSONDecodeError"), <<>>)
                /\ UNCHANGED local
           ELSE /\ local' = [local EXCEPT ![i].request_json = decrypted_body.doc]
                /\ pc' = [pc EXCEPT ![i] = NextStage("PayloadParse")]
                /\ UNCHANGED <<raised, outcome, trace>>
    /\ UNCHANGED <<op, args>>

ChallengeExtract(i) ==
    /\ op[i] = "validate_request"
    /\ pc[i] = "ChallengeExtract"
    /\ LET request_json == local[i].request_json
           challenge == Get(request_json, "challenge")
       IN  IF request_json.t # "dict"
           THEN /\ RaiseInTry(i, Err("AttributeError", "get", ""), <<>>)
                /\ UNCHANGED local
           ELSE IF ~Truthy(challenge)
           THEN /\ RaiseInTry(i, Err("ServerChallengeValidationError", "Missing challenge", ""),
                              <<>>)
                /\ local' = [local EXCEPT ![i].challenge = challenge]
           ELSE /\ local' = [local EXCEPT ![i].challenge = challenge]
                /\ outcome' = [outcome EXCEPT ![i] = Returned(request_json, challenge)]
                /\ pc' = [pc EXCEPT ![i] = NextStage("ChallengeExtract")]
                /\ UNCHANGED <<raised, trace>>
    /\ UNCHANGED <<op, args>>

(***************************************************************************)
(* make_request and make_health_check                                      *)
(***************************************************************************)
DefaultUrl == "http://0.0.0.0:7150/parse"

\* The context make_request uses when the caller gives none.
DefaultContext ==
    PyDict([orgId |-> "fake-org-id",
            userId |-> "fake-user-id",
            userType |-> "fake",
            supportedDirectives |->
                <<"reply", "speak", "display-web-view", "sleep", "listen">>])

\* `if context is None` in place of `context or`: an empty context is kept.
ContextOrDefault_NoneOnly(context) ==
    IF context.t = "none" THEN DefaultContext ELSE context

\* context or {...}
ContextOrDefault(context) == IF Truthy(context) THEN context ELSE DefaultContext

\* `if v` in place of `if v is not None`: every falsy value is pruned.
PruneNone_Falsy(d) == [k \in DOMAIN d |-> IF Truthy(d[k]) THEN d[k] ELSE Missing]

\* {k: v for k, v in {...}.items() if v is not None}
PruneNone(d) == [k \in DOMAIN d |-> IF d[k].t = "none" THEN Missing ELSE d[k]]

\* crypto.generate_signature(secret, message): the encoded signature of the
\* message's bytes.
generate_signature(secret, message) == b64encode(Sign(secret, Utf8(message)))

\* Only server errors taken as failures.
StatusFailed_ServerErrors(status_code) == status_code >= 500

\* res.status_code != 200
StatusFailed(status_code) == status_code # 200

\* The lower-case form of the strings a response may carry.
Lower(s) == IF s = "0A1B" THEN "0a1b" ELSE s

\* A comparison that ignores letter case.
ChallengeDiffers_CaseFold(received, challenge) ==
    received.t # "str" \/ Lower(received.s) # Lower(challenge)

\* response_body.get('challenge') != challenge
ChallengeDiffers(received, challenge) == received # PyStr(challenge)

NoData == NotJson

Wire(method, url, signature, content_type, data, payload) ==
    [method |-> method,
     url |-> url,
     signature |-> signature,
     content_type |-> content_type,
     accept |-> "application/json",
     data |-> data,
     payload |-> payload]

\* The signature made over an encoding of the challenge alone, while the
\* whole encoded request is sent.
PostRequest_SignsChallenge(url, secret, encoded_request) ==
    Wire("POST", url,
         generate_signature(secret,
             json_dumps(JObject([NoFields EXCEPT
                 !["challenge"] = encoded_request.doc.f["challenge"]]))),
         "application/octet-stream", encoded_request, PyNone)

\* Lines 119-124: the headers and the body given to requests.post.
PostRequest(url, secret, encoded_request) ==
    Wire("POST", url, generate_signature(secret, encoded_request),
         "application/octet-stream", encoded_request, PyNone)

\* Lines 139-143: the headers and the query parameters given to requests.get.
GetRequest(url, secret, challenge) ==
    Wire("GET", url, generate_signature(secret, challenge), "", NoData, PyStr(challenge))

Response(status_code, body) == [status_code |-> status_code, body |-> body]

NoResponse == Response(0, NotJson)

\* The locals of make_request and make_health_check before they are assigned.
OutboundLocal ==
    [challenge |-> "",
     context |-> PyNone,
     request |-> NoDoc,
     encoded_request |-> NoData,
     sent |-> Wire("", "", EmptySig, "", NoData, PyNone),
     res |-> NoResponse,
     response_body |-> NoDoc]

\* A retry loop: after a failure the request is sent again.
RaiseOut_Retry(i, e, events) ==
    /\ raised' = [raised EXCEPT ![i] = e]
    /\ outcome' = outcome
    /\ trace' = [trace EXCEPT ![i] = @ \o events]
    /\ pc' = [pc EXCEPT ![i] = "send"]

\* An exception leaves make_request or make_health_check: nothing catches it.
RaiseOut(i, e, events) ==
    /\ raised' = [raised EXCEPT ![i] = e]
    /\ outcome' = [outcome EXCEPT ![i] = Raised(e)]
    /\ trace' = [trace EXCEPT ![i] = @ \o events]
    /\ pc' = [pc EXCEPT ![i] = "done"]

CallMakeRequest(i, secret, text, url, context, params, frame, history) ==
    /\ Idle(i)
    /\ op' = [op EXCEPT ![i] = "make_request"]
    /\ pc' = [pc EXCEPT ![i] = "send"]
    /\ args' = [args EXCEPT ![i] =
                   [secret |-> secret, text |-> text, url |-> url, context |-> context,
                    params |-> params, frame |-> frame, history |-> history]]
    /\ local' = [local EXCEPT ![i] = OutboundLocal]
    /\ UNCHANGED <<raised, outcome, trace>>

\* Lines 95-124: `challenge` is what os.urandom(64).hex() gives.
MakeRequestSend(i, challenge) ==
    /\ op[i] = "make_request"
    /\ pc[i] = "send"
    /\ LET context == ContextOrDefault(args[i].context)
           request == JObject(PruneNone(
                          [NoFields EXCEPT !["challenge"] = PyStr(challenge),
                                           !["text"] = args[i].text,
                                           !["context"] = context,
                                           !["params"] = args[i].params,
                                           !["frame"] = args[i].frame,
                                           !["history"] = args[i].history,
                                           !["directives"] = PyNone]))
           encoded_request == json_dumps(request)
       IN  /\ local' = [local EXCEPT
                           ![i].challenge = challenge,
                           ![i].context = context,
                           ![i].request = request,
                           ![i].encoded_request = encoded_request,
                           ![i].sent = PostRequest(args[i].url, args[i].secret,
                                                   encoded_request)]
           /\ trace' = [trace EXCEPT ![i] = Append(@, Event("requests.post", TRUE))]
    /\ pc' = [pc EXCEPT ![i] = "awaiting"]
    /\ UNCHANGED <<op, args, raised, outcome>>

CallMakeHealthCheck(i, secret, url) ==
    /\ Idle(i)
    /\ op' = [op EXCEPT ![i] = "make_health_check"]
    /\ pc' = [pc EXCEPT ![i] = "send"]
    /\ args' = [args EXCEPT ![i] = [secret |-> secret, url |-> url]]
    /\ local' = [local EXCEPT ![i] = OutboundLocal]
    /\ UNCHANGED <<raised, outcome, trace>>

\* Lines 138-143.
MakeHealthCheckSend(i, challenge) ==
    /\ op[i] = "make_health_check"
    /\ pc[i] = "send"
    /\ local' = [local EXCEPT
                    ![i].challenge = challenge,
                    ![i].sent = GetRequest(args[i].url, args[i].secret, challenge)]
    /\ trace' = [trace EXCEPT ![i] = Append(@, Event("requests.get", TRUE))]
    /\ pc' = [pc EXCEPT ![i] = "awaiting"]
    /\ UNCHANGED <<op, args, raised, outcome>>

\* requests.post / requests.get returns a response.
Respond(i, status_code, body) ==
    /\ op[i] \in {"make_request", "make_health_check"}
    /\ pc[i] = "awaiting"
    /\ local' = [local EXCEPT ![i].res = Response(status_code, body)]
    /\ pc' = [pc EXCEPT ![i] = "check"]
    /\ UNCHANGED <<op, args, raised, outcome, trace>>

\* requests.post / requests.get raises instead (no connection, timeout).
TransportFails(i) ==
    /\ op[i] \in {"make_request", "make_health_check"}
    /\ pc[i] = "awaiting"
    /\ RaiseOut(i, Err("ConnectionError", "", ""), <<>>)
    /\ UNCHANGED <<op, args, local>>

\* One challenge shared by the calls in flight, as a module-level variable
\* would be, in place of the local of the call.
LocalChallenge_Shared(i) ==
    local[CHOOSE j \in Slots :
              op[j] \in {"make_request", "make_health_check"}
              /\ pc[j] \in {"awaiting", "check"}].challenge

\* The local variable `challenge` of the call.
LocalChallenge(i) == local[i].challenge

\* Lines 126-134 and 145-153: the two functions check the response alike,
\* with their own message for a status that is not 200.
CheckResponse(i, failed) ==
    /\ pc[i] = "check"
    /\ LET res == local[i].res
           response_body == res.body.doc
       IN  IF StatusFailed(res.status_code)
           THEN /\ RaiseOut(i, Err("ResponseValidationError", failed, ""),
                            <<Event("status_code", FALSE)>>)
                /\ UNCHANGED local
           ELSE IF ~res.body.json
           THEN /\ RaiseOut(i, Err("JSONDecodeError", "", ""),
                            <<Event("status_code", TRUE), Event("res.json", FALSE)>>)
                /\ UNCHANGED local
           ELSE IF response_body.t # "dict"
           THEN /\ RaiseOut(i, Err("AttributeError", "get", ""),
                            <<Event("status_code", TRUE), Event("res.json", TRUE)>>)
                /\ local' = [local EXCEPT ![i].response_body = response_body]
           ELSE IF ChallengeDiffers(Get(response_body, "challenge"), LocalChallenge(i))
           THEN /\ RaiseOut(i, Err("ClientChallengeValidationError",
                                   "Response failed challenge", ""),
                            <<Event("status_code", TRUE), Event("res.json", TRUE),
                              Event("challenge", FALSE)>>)
                /\ local' = [local EXCEPT ![i].response_body = response_body]
           ELSE /\ local' = [local EXCEPT ![i].response_body = response_body]
                /\ outcome' = [outcome EXCEPT ![i] = Returned(response_body, PyNone)]
                /\ trace' = [trace EXCEPT ![i] =
                                @ \o <<Event("status_code", TRUE), Event("res.json", TRUE),
                                       Event("challenge", TRUE)>>]
                /\ pc' = [pc EXCEPT ![i] = "done"]
                /\ UNCHANGED raised
    /\ UNCHANGED <<op, args>>

MakeRequestCheck(i) ==
    /\ op[i] = "make_request"
    /\ CheckResponse(i, "Request failed")

MakeHealthCheckCheck(i) ==
    /\ op[i] = "make_health_check"
    /\ CheckResponse(i, "Health check failed")

\* The caller takes the result; nothing of the call is kept.
Return(i) ==
    /\ ~Idle(i)
    /\ pc[i] = "done"
    /\ op' = [op EXCEPT ![i] = "idle"]
    /\ pc' = [pc EXCEPT ![i] = "idle"]
    /\ args' = [args EXCEPT ![i] = IdleArgs]
    /\ local' = [local EXCEPT ![i] = IdleLocal]
    /\ raised' = [raised EXCEPT ![i] = NoErr]
    /\ outcome' = [outcome EXCEPT ![i] = Running]
    /\ trace' = [trace EXCEPT ![i] = <<>>]

(***************************************************************************)
(* The inputs of the calls.                                                *)
(***************************************************************************)
Secrets == {"s3cr3t", "wr0ng"}

PrivateKeys == {"k1", "k2"}

PayloadDocs ==
    {JOther("list"), JOther("none"), JOther("str"), JOther("int"),
     JObject(Fields(PyStr("abc123"), PyStr("turn on the lights"))),
     JObject(Fields(PyStr("abc123"), Missing)),
     JObject(Fields(PyInt("7"), PyStr("hi"))),
     JObject(Fields(Missing, PyStr("hi"))),
     JObject(Fields(PyNone, PyStr("hi"))),
     JObject(Fields(PyStr(""), PyStr("hi")))}

Plaintexts == {NotJson} \cup {json_dumps(d) : d \in PayloadDocs}

MessageTexts == {Corrupt} \cup {Encrypted(k, p) : k \in PrivateKeys, p \in Plaintexts}

MessageFields ==
    {Field("missing", TRUE, Corrupt), Field("empty", TRUE, Corrupt),
     Field("int", TRUE, Corrupt)}
    \cup {Field("str", TRUE, m) : m \in MessageTexts}

\* The signatures an envelope with `message` may carry: none, an empty or
\* non-string one, one with bad base64 padding, bytes that are no signature,
\* a signature over the message and one over the plaintext inside it.
SignatureFieldsFor(message) ==
    {Field("missing", TRUE, GarbageSig), Field("empty", TRUE, GarbageSig),
     Field("int", TRUE, GarbageSig), b64encode(GarbageSig)}
    \cup {b64encode(Sign(s, Utf8(message.v))) : s \in Secrets}
    \cup {BadPadding(Sign(s, Utf8(message.v))) : s \in {"s3cr3t"}}
    \cup {b64encode(Sign(s, Utf8(AsMessage(message.v.pt)))) : s \in {"s3cr3t"}}

Bodies ==
    {Body("none", FALSE, NoEnvelope), Body("empty", FALSE, NoEnvelope),
     Body("str", FALSE, NoEnvelope), Body("str", TRUE, NoEnvelope)}
    \cup UNION {{Body("str", TRUE, Envelope("dict", sg, m)) :
                     sg \in SignatureFieldsFor(m)} : m \in MessageFields}

\* What os.urandom(64).hex() may give: lower-case hexadecimal strings.
Challenges == {"0a1b", "c2d3"}

Texts == {PyNone, PyStr(""), PyStr("hi")}

Contexts == {PyNone, PyDict(EmptyDict), PyDict([orgId |-> "org-1", userId |-> "user-1"])}

Params == {PyNone, PyDict(EmptyDict), PyDict([time_zone |-> "UTC"])}

Frames == {PyNone, PyDict([intent |-> "greet"])}

Histories == {PyNone, PyList("turn-1")}

\* The challenges a response may carry: none, null, a challenge a call
\* generated, one in another letter case, a number.
ResponseChallenges ==
    {Missing, PyNone, PyStr("0A1B"), PyInt("7")} \cup {PyStr(c) : c \in Challenges}

ResponseBodies ==
    {NotJson, json_dumps(JOther("list"))}
    \cup {json_dumps(JObject([NoFields EXCEPT !["challenge"] = c, !["directives"] = d])) :
            c \in ResponseChallenges, d \in {Missing, PyList("reply")}}

StatusCodes == {200, 404, 500}

\* Spec issues one call at a time.
NoCallInFlight == \A j \in Slots : Idle(j)

Init ==
    /\ op = [i \in Slots |-> "idle"]
    /\ pc = [i \in Slots |-> "idle"]
    /\ args = [i \in Slots |-> IdleArgs]
    /\ local = [i \in Slots |-> IdleLocal]
    /\ raised = [i \in Slots |-> NoErr]
    /\ outcome = [i \in Slots |-> Running]
    /\ trace = [i \in Slots |-> <<>>]

Next ==
    \E i \in Slots :
        \/ /\ NoCallInFlight
           /\ \E secret \in Secrets, private_key \in PrivateKeys, body \in Bodies :
                  CallValidateRequest(i, secret, private_key, body)
        \/ EnvelopeParse(i)
        \/ SignatureVerify(i)
        \/ Decrypt(i)
        \/ PayloadParse(i)
        \/ ChallengeExtract(i)
        \/ /\ NoCallInFlight
           /\ \E secret \in Secrets, text \in Texts, context \in Contexts, params \in Params,
                 frame \in Frames, history \in Histories :
                  CallMakeRequest(i, secret, text, DefaultUrl, context, params, frame, history)
        \/ \E challenge \in Challenges : MakeRequestSend(i, challenge)
        \/ MakeRequestCheck(i)
        \/ /\ NoCallInFlight
           /\ \E secret \in Secrets : CallMakeHealthCheck(i, secret, DefaultUrl)
        \/ \E challenge \in Challenges : MakeHealthCheckSend(i, challenge)
        \/ MakeHealthCheckCheck(i)
        \/ \E status_code \in StatusCodes, body \in ResponseBodies :
               Respond(i, status_code, body)
        \/ TransportFails(i)
        \/ Return(i)

Spec == Init /\ [][Next]_vars

(***************************************************************************)
(* Calls that overlap: the functions are called from several threads, and  *)
(* a call may start and take a step at any time.  The inputs are a few of  *)
(* those of Spec.                                                          *)
(***************************************************************************)
ConcPayloads ==
    {json_dumps(JObject(Fields(PyStr("abc123"), PyStr("turn on the lights")))),
     json_dumps(JObject(Fields(Missing, PyStr("hi"))))}

\* An envelope that validates, one without a challenge, one encrypted for
\* another key and one signed with another secret.
ConcBodies ==
    {Body("str", TRUE,
          Envelope("dict", b64encode(Sign("s3cr3t", Utf8(Encrypted("k1", p)))),
                   Field("str", TRUE, Encrypted("k1", p)))) : p \in ConcPayloads}
    \cup {Body("str", TRUE,
               Envelope("dict", b64encode(Sign(sk[1], Utf8(Encrypted(sk[2], p)))),
                        Field("str", TRUE, Encrypted(sk[2], p)))) :
             sk \in {<<"s3cr3t", "k2">>, <<"wr0ng", "k1">>},
             p \in {json_dumps(JObject(Fields(PyStr("abc123"), PyStr("turn on the lights"))))}}

\* A response that echoes a challenge, and a failure of the server.
ConcResponses ==
    {Response(200, json_dumps(JObject([NoFields EXCEPT !["challenge"] = PyStr(c)]))) :
        c \in Challenges}
    \cup {Response(500, NotJson)}

NextConc ==
    \E i \in Slots :
        \/ \E body \in ConcBodies : CallValidateRequest(i, "s3cr3t", "k1", body)
        \/ EnvelopeParse(i)
        \/ SignatureVerify(i)
        \/ Decrypt(i)
        \/ PayloadParse(i)
        \/ ChallengeExtract(i)
        \/ CallMakeRequest(i, "s3cr3t", PyStr("hi"), DefaultUrl, PyNone, PyNone, PyNone,
                           PyNone)
        \/ \E challenge \in Challenges : MakeRequestSend(i, challenge)
        \/ MakeRequestCheck(i)
        \/ CallMakeHealthCheck(i, "s3cr3t", DefaultUrl)
        \/ \E challenge \in Challenges : MakeHealthCheckSend(i, challenge)
        \/ MakeHealthCheckCheck(i)
        \/ \E res \in ConcResponses : Respond(i, res.status_code, res.body)
        \/ TransportFails(i)
        \/ Return(i)

SpecConc == Init /\ [][NextConc]_vars

(***************************************************************************)
(* Properties                                                              *)
(***************************************************************************)
Finished(i, f) == op[i] = f /\ pc[i] = "done"

Called(i, call, ok) == \E j \in 1 .. Len(trace[i]) : trace[i][j] = Event(call, ok)

Invoked(i, call) == \E j \in 1 .. Len(trace[i]) : trace[i][j].call = call

\* The envelope of the call's body, when the body is a JSON object.
HasEnvelope(i) ==
    /\ args[i].body.t = "str"
    /\ args[i].body.json
    /\ args[i].body.doc.t = "dict"

EnvelopeOf(i) == args[i].body.doc

\* The body is an envelope with a non-empty signature string and a non-empty
\* message string.
WellFormedEnvelope(i) ==
    /\ HasEnvelope(i)
    /\ EnvelopeOf(i).signature.t = "str"
    /\ EnvelopeOf(i).message.t = "str"

\* The envelope's signature decodes and is the signature of the message's
\* bytes under the secret of the call.
EnvelopeVerifies(i) ==
    /\ WellFormedEnvelope(i)
    /\ EnvelopeOf(i).signature.pad
    /\ EnvelopeOf(i).signature.v = Sign(args[i].secret, Utf8(EnvelopeOf(i).message.v))

\* The envelope's message is a ciphertext for the private key of the call.
EnvelopeDecrypts(i) ==
    /\ EnvelopeOf(i).message.v.layer = "cipher"
    /\ EnvelopeOf(i).message.v.key = args[i].private_key

PlaintextOf(i) == EnvelopeOf(i).message.v.pt

\* The envelope verifies and decrypts to the text of a JSON object.
DecryptsToObject(i) ==
    /\ EnvelopeVerifies(i)
    /\ EnvelopeDecrypts(i)
    /\ PlaintextOf(i).json
    /\ PlaintextOf(i).doc.t = "dict"

\* C1: in validate_request, crypto.decrypt is invoked only after
\* crypto.verify_signature has succeeded on the envelope's message bytes with
\* the secret of the call; for an envelope that does not parse or whose
\* signature does not verify, decrypt is never invoked.
C1_VerifyBeforeDecrypt ==
    \A i \in Slots :
        op[i] = "validate_request" =>
            /\ \A j \in 1 .. Len(trace[i]) :
                   trace[i][j].call = "decrypt" =>
                       \E k \in 1 .. (j - 1) : trace[i][k] = Event("verify_signature", TRUE)
            /\ Invoked(i, "decrypt") => EnvelopeVerifies(i)
            /\ pc[i] \in {"Decrypt", "PayloadParse", "ChallengeExtract"} => EnvelopeVerifies(i)

C1_Witness ==
    \E i \in Slots :
        /\ Finished(i, "validate_request")
        /\ Called(i, "verify_signature", TRUE)
        /\ Invoked(i, "decrypt")

\* C2: every failure of validate_request is a RequestValidationError or one
\* of its subclasses: an exception of these kinds raised during validation
\* leaves unchanged, any other is replaced by a plain RequestValidationError
\* whose cause it is.
C2_FailuresNormalized ==
    \A i \in Slots :
        (op[i] = "validate_request" /\ outcome[i].st = "raised") =>
            /\ outcome[i].err.kind \in
                   {"RequestValidationError", "SignatureValidationError",
                    "ServerChallengeValidationError"}
            /\ raised[i].kind \in
                   {"RequestValidationError", "SignatureValidationError",
                    "ServerChallengeValidationError"}
                   => outcome[i].err = raised[i]
            /\ raised[i].kind \notin
                   {"RequestValidationError", "SignatureValidationError",
                    "ServerChallengeValidationError"}
                   => /\ outcome[i].err.kind = "RequestValidationError"
                      /\ outcome[i].err.cause = raised[i].kind
                      /\ outcome[i].err.cause # ""

\* A failure that is not of a validation kind was raised and was wrapped.
C2_Witness ==
    \E i \in Slots :
        /\ Finished(i, "validate_request")
        /\ raised[i].kind = "binascii.Error"
        /\ outcome[i].err.kind = "RequestValidationError"

\* C3: when the signature verifies and the message decrypts to a JSON object
\* that has no `challenge`, or a null or empty one, validate_request fails
\* with ServerChallengeValidationError.
C3_MissingChallengeFails ==
    \A i \in Slots :
        (/\ Finished(i, "validate_request")
         /\ DecryptsToObject(i)
         /\ PlaintextOf(i).doc.f["challenge"] \in {Missing, PyNone, PyStr("")})
            => /\ outcome[i].st = "raised"
               /\ outcome[i].err.kind = "ServerChallengeValidationError"

\* The payload {"text": "hi"} behind a valid signature.
C3_Witness ==
    \E i \in Slots :
        /\ Finished(i, "validate_request")
        /\ DecryptsToObject(i)
        /\ PlaintextOf(i).doc = JObject(Fields(Missing, PyStr("hi")))
        /\ outcome[i].err.kind = "ServerChallengeValidationError"

\* C4: when the signature verifies and the message decrypts to a JSON object
\* with a non-empty `challenge`, validate_request returns that object, with
\* every field as decrypted, and its `challenge`.
C4_ReturnsObjectAndChallenge ==
    \A i \in Slots :
        (/\ Finished(i, "validate_request")
         /\ DecryptsToObject(i)
         /\ PlaintextOf(i).doc.f["challenge"] \notin {Missing, PyNone, PyStr("")})
            => /\ outcome[i] =
                      Returned(PlaintextOf(i).doc, PlaintextOf(i).doc.f["challenge"])
               /\ outcome[i].challenge = outcome[i].value.f["challenge"]
               /\ outcome[i].challenge # PyStr("")

C4_Witness ==
    \E i \in Slots :
        /\ Finished(i, "validate_request")
        /\ args[i].secret = "s3cr3t"
        /\ outcome[i] =
               Returned(JObject(Fields(PyStr("abc123"), PyStr("turn on the lights"))),
                        PyStr("abc123"))

Outbound == {"make_request", "make_health_check"}

\* The call has received a response and has checked it.
Checked(i) == op[i] \in Outbound /\ pc[i] = "done" /\ local[i].res # NoResponse

\* The challenge the call has put on the wire.
SentChallenge(i) ==
    IF op[i] = "make_request"
    THEN local[i].sent.data.doc.f["challenge"]
    ELSE local[i].sent.payload

\* The response is a JSON object.
ResponseIsObject(i) == local[i].res.body.json /\ local[i].res.body.doc.t = "dict"

\* C5: make_request and make_health_check return only when the response's
\* `challenge` is the very string generated for the call and sent with it, and
\* they return the response object as received; with status 200, a response
\* object whose `challenge` is missing or is any other value raises
\* ClientChallengeValidationError.
C5_ExactChallengeEcho ==
    \A i \in Slots :
        Checked(i) =>
            /\ outcome[i].st = "returned" =>
                   /\ local[i].res.status_code = 200
                   /\ ResponseIsObject(i)
                   /\ local[i].res.body.doc.f["challenge"] = PyStr(local[i].challenge)
                   /\ SentChallenge(i) = PyStr(local[i].challenge)
                   /\ outcome[i].value = local[i].res.body.doc
            /\ (/\ local[i].res.status_code = 200
                /\ ResponseIsObject(i)
                /\ local[i].res.body.doc.f["challenge"] # PyStr(local[i].challenge))
                   => /\ outcome[i].st = "raised"
                      /\ outcome[i].err.kind = "ClientChallengeValidationError"

\* A response in another letter case is refused, in make_request.
C5_Witness ==
    \E i \in Slots :
        /\ Checked(i)
        /\ op[i] = "make_request"
        /\ local[i].challenge = "0a1b"
        /\ local[i].res.status_code = 200
        /\ local[i].res.body.doc.f["challenge"] = PyStr("0A1B")
        /\ outcome[i].err.kind = "ClientChallengeValidationError"

\* C6: in make_request and make_health_check a status other than 200 raises
\* ResponseValidationError, unwrapped, whatever the body is; the body is not
\* decoded and the challenge is not compared.
C6_StatusBeforeBody ==
    \A i \in Slots :
        (Checked(i) /\ local[i].res.status_code # 200) =>
            /\ outcome[i].st = "raised"
            /\ outcome[i].err.kind = "ResponseValidationError"
            /\ outcome[i].err.cause = ""
            /\ outcome[i].err = raised[i]
            /\ ~Invoked(i, "res.json")
            /\ ~Invoked(i, "challenge")

\* A 404 whose body echoes the right challenge.
C6_Witness ==
    \E i \in Slots :
        /\ Checked(i)
        /\ local[i].res.status_code = 404
        /\ ResponseIsObject(i)
        /\ local[i].res.body.doc.f["challenge"] = PyStr(local[i].challenge)
        /\ outcome[i].err.kind = "ResponseValidationError"

\* C7: validate_request fails with SignatureValidationError when the body is
\* missing or empty, when the envelope's `signature` is missing or empty,
\* when its `message` is missing or empty, and when the signature is not the
\* signature of the message under the secret.
C7_SignatureFailures ==
    \A i \in Slots :
        Finished(i, "validate_request") /\
            (\/ args[i].body.t \in {"none", "empty"}
             \/ /\ HasEnvelope(i)
                /\ \/ EnvelopeOf(i).signature.t \in {"missing", "empty"}
                   \/ EnvelopeOf(i).message.t \in {"missing", "empty"}
             \/ /\ WellFormedEnvelope(i)
                /\ EnvelopeOf(i).signature.pad
                /\ EnvelopeOf(i).signature.v #
                       Sign(args[i].secret, Utf8(EnvelopeOf(i).message.v)))
                => /\ outcome[i].st = "raised"
                   /\ outcome[i].err.kind = "SignatureValidationError"

\* The envelope {}.
C7_Witness ==
    \E i \in Slots :
        /\ Finished(i, "validate_request")
        /\ HasEnvelope(i)
        /\ EnvelopeOf(i).signature.t = "missing"
        /\ EnvelopeOf(i).message.t = "missing"
        /\ outcome[i].err = Err("SignatureValidationError", "Missing signature", "")

\* C8: a non-empty signature that does not verify, a malformed one included,
\* makes validate_request fail with SignatureValidationError.
C8_MalformedIsSignatureFailure ==
    \A i \in Slots :
        (/\ Finished(i, "validate_request")
         /\ WellFormedEnvelope(i)
         /\ ~EnvelopeVerifies(i))
            => /\ outcome[i].st = "raised"
               /\ outcome[i].err.kind = "SignatureValidationError"

\* The stage of validate_request that fails, told from the inputs.
DecryptFails(i) == EnvelopeVerifies(i) /\ ~EnvelopeDecrypts(i)

PayloadParseFails(i) ==
    EnvelopeVerifies(i) /\ EnvelopeDecrypts(i) /\ ~PlaintextOf(i).json

\* C9, as claimed: a decryption failure is reported with a kind that is
\* neither that of a signature failure nor that of a plaintext that is not
\* JSON (RequestValidationError, line 71).
C9_KindTellsStage ==
    \A i \in Slots :
        (Finished(i, "validate_request") /\ DecryptFails(i)) =>
            outcome[i].err.kind \notin
                {"SignatureValidationError", "RequestValidationError"}

\* C9, amended: a decryption failure and a plaintext that is not JSON are
\* both reported as a plain RequestValidationError, never as a
\* SignatureValidationError; they differ in message and cause only.
C9_SameKindOtherCause ==
    \A i \in Slots :
        Finished(i, "validate_request") =>
            /\ DecryptFails(i) =>
                   /\ outcome[i].err =
                          Err("RequestValidationError", "Cannot validate request",
                              raised[i].kind)
                   /\ raised[i].kind \notin
                          {"", "JSONDecodeError", "RequestValidationError",
                           "SignatureValidationError", "ServerChallengeValidationError"}
            /\ PayloadParseFails(i) =>
                   outcome[i].err =
                       Err("RequestValidationError", "Invalid request data", "JSONDecodeError")

\* A message encrypted for another key, behind a valid signature.
C9_Witness ==
    \E i \in Slots :
        /\ Finished(i, "validate_request")
        /\ DecryptFails(i)
        /\ EnvelopeOf(i).message.v.layer = "cipher"
        /\ Called(i, "decrypt", FALSE)
        /\ outcome[i].err.kind = "RequestValidationError"

\* The request make_request has encoded and sent.
Sent(i) == op[i] = "make_request" /\ pc[i] \in {"awaiting", "check", "done"}

RequestOf(i) == local[i].sent.data.doc

Has(doc, key) == doc.f[key].t # "missing"

\* C10, as claimed: the request has no null value, has `challenge`, and has
\* each of text, context, params, frame, history exactly when the caller gave
\* a value that is not None.
C10_PresentIffSupplied ==
    \A i \in Slots :
        Sent(i) =>
            /\ \A k \in DocKeys : RequestOf(i).f[k] # PyNone
            /\ Has(RequestOf(i), "challenge")
            /\ \A k \in {"text", "context", "params", "frame", "history"} :
                   Has(RequestOf(i), k) <=> args[i][k] # PyNone

\* C10, amended: the request has no null value and always has `challenge` and
\* `context`; it has each of text, params, frame, history, with the caller's
\* value, exactly when the caller gave a value that is not None.
C10_ContextAlwaysPresent ==
    \A i \in Slots :
        Sent(i) =>
            /\ local[i].sent.data.json
            /\ RequestOf(i).t = "dict"
            /\ \A k \in DocKeys : RequestOf(i).f[k] # PyNone
            /\ RequestOf(i).f["challenge"] = PyStr(local[i].challenge)
            /\ Has(RequestOf(i), "context")
            /\ \A k \in {"text", "params", "frame", "history"} :
                   /\ Has(RequestOf(i), k) <=> args[i][k] # PyNone
                   /\ Has(RequestOf(i), k) => RequestOf(i).f[k] = args[i][k]

\* No context and no params given, an empty text given.
C10_Witness ==
    \E i \in Slots :
        /\ Sent(i)
        /\ args[i].context = PyNone
        /\ args[i].params = PyNone
        /\ args[i].text = PyStr("")
        /\ Has(RequestOf(i), "context")
        /\ Has(RequestOf(i), "text")
        /\ ~Has(RequestOf(i), "params")

\* The request of make_health_check has been sent.
SentHealthCheck(i) ==
    op[i] = "make_health_check" /\ pc[i] \in {"awaiting", "check", "done"}

\* C11: in make_request the signature header is the signature, under the
\* caller's secret, of the very string sent as the body, which is the one
\* encoding of the request; in make_health_check it is the signature of the
\* challenge string itself, and that challenge is the `payload` parameter.
C11_SignatureOverWhatIsSent ==
    \A i \in Slots :
        /\ Sent(i) =>
               /\ local[i].sent.method = "POST"
               /\ local[i].sent.data = local[i].encoded_request
               /\ local[i].sent.data = [json |-> TRUE, doc |-> local[i].request]
               /\ local[i].sent.signature =
                      Field("str", TRUE,
                            [secret |-> args[i].secret,
                             data |-> [utf8 |-> local[i].sent.data]])
        /\ SentHealthCheck(i) =>
               /\ local[i].sent.method = "GET"
               /\ local[i].sent.payload = PyStr(local[i].challenge)
               /\ local[i].sent.signature =
                      Field("str", TRUE,
                            [secret |-> args[i].secret,
                             data |-> [utf8 |-> local[i].sent.payload.s]])

\* A request signed with the other secret and carrying a text.
C11_Witness ==
    \E i \in Slots :
        /\ Sent(i)
        /\ args[i].secret = "wr0ng"
        /\ local[i].sent.signature.v.secret = "wr0ng"
        /\ Has(local[i].sent.signature.v.data.utf8.doc, "text")

\* The number of requests the call has given to the transport.
RoundTrips(i) ==
    Cardinality({j \in 1 .. Len(trace[i]) :
                    trace[i][j].call \in {"requests.post", "requests.get"}})

\* C12: a call of make_request or make_health_check makes at most one network
\* round trip: it has sent nothing before it sends, one request from then on,
\* and after a failure (a status that is not 200, a challenge mismatch, a
\* transport or decoding error) it ends with one request sent;
\* validate_request makes none.
C12_OneRoundTrip ==
    \A i \in Slots :
        /\ RoundTrips(i) <= 1
        /\ op[i] \notin Outbound => RoundTrips(i) = 0
        /\ op[i] \in Outbound =>
               /\ pc[i] = "send" => RoundTrips(i) = 0
               /\ pc[i] \in {"awaiting", "check", "done"} => RoundTrips(i) = 1
               /\ outcome[i].st = "raised" => pc[i] = "done"

\* A health check that failed on the challenge after its one request.
C12_Witness ==
    \E i \in Slots :
        /\ Finished(i, "make_health_check")
        /\ outcome[i].err.kind = "ClientChallengeValidationError"
        /\ RoundTrips(i) = 1

(***************************************************************************)
(* The outcome of a call that runs alone, as a function of its arguments   *)
(* and of what the transport gave it.                                      *)
(***************************************************************************)
Wrapped(kind) == Raised(Err("RequestValidationError", "Cannot validate request", kind))

AloneValidate(secret, private_key, body) ==
    LET sg == body.doc.signature
        msg == body.doc.message
        doc == msg.v.pt.doc
    IN  IF body.t # "str"
        THEN Raised(Err("SignatureValidationError", "Missing body", ""))
        ELSE IF ~body.json THEN Wrapped("JSONDecodeError")
        ELSE IF body.doc.t # "dict" THEN Wrapped("AttributeError")
        ELSE IF sg.t \in {"missing", "empty"}
        THEN Raised(Err("SignatureValidationError", "Missing signature", ""))
        ELSE IF msg.t \in {"missing", "empty"}
        THEN Raised(Err("SignatureValidationError", "Missing message", ""))
        ELSE IF msg.t = "int" THEN Wrapped("AttributeError")
        ELSE IF sg.t = "int" THEN Wrapped("TypeError")
        ELSE IF ~sg.pad THEN Wrapped("binascii.Error")
        ELSE IF sg.v # [secret |-> secret, data |-> [utf8 |-> msg.v]]
        THEN Raised(Err("SignatureValidationError", "Invalid signature", "InvalidSignature"))
        ELSE IF ~(msg.v.layer = "cipher" /\ msg.v.key = private_key)
        THEN Wrapped("DecryptError")
        ELSE IF ~msg.v.pt.json
        THEN Raised(Err("RequestValidationError", "Invalid request data", "JSONDecodeError"))
        ELSE IF doc.t # "dict" THEN Wrapped("AttributeError")
        ELSE IF doc.f["challenge"] \in {Missing, PyNone, PyStr(""), PyInt("0")}
        THEN Raised(Err("ServerChallengeValidationError", "Missing challenge", ""))
        ELSE Returned(doc, doc.f["challenge"])

AloneOutbound(failed, challenge, res) ==
    IF res = NoResponse THEN Raised(Err("ConnectionError", "", ""))
    ELSE IF res.status_code # 200 THEN Raised(Err("ResponseValidationError", failed, ""))
    ELSE IF ~res.body.json THEN Raised(Err("JSONDecodeError", "", ""))
    ELSE IF res.body.doc.t # "dict" THEN Raised(Err("AttributeError", "get", ""))
    ELSE IF res.body.doc.f["challenge"] # challenge
    THEN Raised(Err("ClientChallengeValidationError", "Response failed challenge", ""))
    ELSE Returned(res.body.doc, PyNone)

AloneOutcome(i) ==
    CASE op[i] = "validate_request" ->
             AloneValidate(args[i].secret, args[i].private_key, args[i].body)
      [] op[i] = "make_request" ->
             AloneOutbound("Request failed", SentChallenge(i), local[i].res)
      [] op[i] = "make_health_check" ->
             AloneOutbound("Health check failed", SentChallenge(i), local[i].res)

\* The outcome of every finished call is that of the call alone, when calls
\* are made one at a time.
AloneOutcomeSequential == \A i \in Slots : pc[i] = "done" => outcome[i] = AloneOutcome(i)

\* C13: with calls that overlap in any way, the outcome of every finished
\* call is the one it has when it runs alone, given its own arguments and
\* its own response, and an outbound call returns only on the challenge it
\* generated and sent itself, whatever challenges other calls have in flight.
C13_CallsIndependent ==
    \A i \in Slots :
        pc[i] = "done" =>
            /\ outcome[i] = AloneOutcome(i)
            /\ (op[i] \in Outbound /\ outcome[i].st = "returned") =>
                   /\ local[i].res.body.doc.f["challenge"] = PyStr(local[i].challenge)
                   /\ SentChallenge(i) = PyStr(local[i].challenge)

\* A call is refused a response that echoes the challenge of another call in
\* flight, while a validation runs in a third slot or the other call waits.
C13_Witness ==
    \E i, j \in Slots :
        /\ i # j
        /\ Finished(i, "make_request")
        /\ op[j] \in Outbound
        /\ pc[j] \in {"awaiting", "check"}
        /\ local[j].challenge # local[i].challenge
        /\ local[i].res.status_code = 200
        /\ local[i].res.body.doc.f["challenge"] = PyStr(local[j].challenge)
        /\ outcome[i].err.kind = "ClientChallengeValidationError"

\* The envelope's message would decrypt with the private key of the call, and
\* its signature is that of the plaintext inside the message, under the
\* secret of the call, correctly encoded.
SignedOverPlaintext(i) ==
    /\ WellFormedEnvelope(i)
    /\ EnvelopeDecrypts(i)
    /\ EnvelopeOf(i).signature.pad
    /\ EnvelopeOf(i).signature.v =
           [secret |-> args[i].secret,
            data |-> [utf8 |-> [layer |-> "plain", key |-> "", pt |-> PlaintextOf(i)]]]

\* C14: an envelope signed over the plaintext instead of over the message
\* text as transmitted is rejected by validate_request with 'Invalid
\* signature' (verification having run and failed), although its message
\* would decrypt; decrypt is never invoked for it and nothing is returned.
C14_PlaintextSignatureRejected ==
    \A i \in Slots :
        (op[i] = "validate_request" /\ SignedOverPlaintext(i)) =>
            /\ ~Invoked(i, "decrypt")
            /\ pc[i] \in {"EnvelopeParse", "SignatureVerify", "done"}
            /\ pc[i] = "done" =>
                   /\ outcome[i] = Raised(Err("SignatureValidationError",
                                              "Invalid signature", "InvalidSignature"))
                   /\ Called(i, "verify_signature", FALSE)

\* A call has rejected an envelope signed over the plaintext of a JSON object
\* with a challenge, encrypted for the private key of the call.
C14_Witness ==
    \E i \in Slots :
        /\ Finished(i, "validate_request")
        /\ SignedOverPlaintext(i)
        /\ PlaintextOf(i).json
        /\ PlaintextOf(i).doc.t = "dict"
        /\ PlaintextOf(i).doc.f["challenge"] = PyStr("abc123")
        /\ outcome[i].err.msg = "Invalid signature"

\* The stages of validate_request in their order, and the position that
\* follows the last.
Stages == <<"EnvelopeParse", "SignatureVerify", "Decrypt", "PayloadParse",
            "ChallengeExtract", "done">>

StageIndex(stage) == CHOOSE n \in 1 .. Len(Stages) : Stages[n] = stage

\* The envelope has a signature and a message that are not empty.
ParsesAsEnvelope(i) ==
    /\ HasEnvelope(i)
    /\ EnvelopeOf(i).signature.t \in {"str", "int"}
    /\ EnvelopeOf(i).message.t \in {"str", "int"}

\* The earliest stage that fails on the arguments of the call, "done" when
\* none does.
FirstFailingStage(i) ==
    IF ~ParsesAsEnvelope(i) THEN "EnvelopeParse"
    ELSE IF ~EnvelopeVerifies(i) THEN "SignatureVerify"
    ELSE IF ~EnvelopeDecrypts(i) THEN "Decrypt"
    ELSE IF ~PlaintextOf(i).json THEN "PayloadParse"
    ELSE IF \/ PlaintextOf(i).doc.t # "dict"
            \/ PlaintextOf(i).doc.f["challenge"] \in {Missing, PyNone, PyStr("")}
    THEN "ChallengeExtract"
    ELSE "done"

\* The exceptions a stage raises.
StageErrors(stage) ==
    CASE stage = "EnvelopeParse" ->
             {Err("SignatureValidationError", "Missing body", ""),
              Err("JSONDecodeError", "", ""),
              Err("AttributeError", "get", ""),
              Err("SignatureValidationError", "Missing signature", ""),
              Err("SignatureValidationError", "Missing message", "")}
      [] stage = "SignatureVerify" ->
             {Err("AttributeError", "encode", ""),
              Err("TypeError", "b64decode", ""),
              Err("binascii.Error", "Incorrect padding", ""),
              Err("SignatureValidationError", "Invalid signature", "InvalidSignature")}
      [] stage = "Decrypt" -> {Err("DecryptError", "", "")}
      [] stage = "PayloadParse" ->
             {Err("RequestValidationError", "Invalid request data", "JSONDecodeError")}
      [] stage = "ChallengeExtract" ->
             {Err("AttributeError", "get", ""),
              Err("ServerChallengeValidationError", "Missing challenge", "")}

\* One step of a call of validate_request from stage to stage.
StageStep(i) ==
    IF pc[i] = FirstFailingStage(i)
    THEN /\ pc'[i] = "done"
         /\ outcome'[i].st = "raised"
         /\ raised'[i] \in StageErrors(pc[i])
    ELSE /\ pc'[i] = Stages[StageIndex(pc[i]) + 1]
         /\ outcome'[i].st # "raised"
         /\ raised'[i] = NoErr

\* C15: validate_request passes through EnvelopeParse, SignatureVerify,
\* Decrypt, PayloadParse and ChallengeExtract in this order, one after the
\* other; the stage that fails first on the call's arguments ends the call
\* with one of its own errors and no later stage runs; a signature that does
\* not verify is reported as such whether or not the message would decrypt,
\* and a plaintext that is not JSON is reported as invalid request data.
C15_StagesInOrder ==
    [][\A i \in Slots :
           (op[i] = "validate_request" /\ op'[i] = "validate_request"
            /\ pc'[i] # pc[i]) =>
               /\ StageStep(i)
               /\ (pc[i] = "SignatureVerify" /\ WellFormedEnvelope(i)
                   /\ EnvelopeOf(i).signature.pad /\ ~EnvelopeVerifies(i)) =>
                      /\ outcome'[i].err.kind = "SignatureValidationError"
                      /\ ~Invoked(i, "decrypt")'
               /\ (pc[i] = "PayloadParse" /\ ~PlaintextOf(i).json) =>
                      outcome'[i].err.msg = "Invalid request data"]_vars

\* A signature that decodes and does not verify on a message that would not
\* decrypt either: the call has ended with the signature failure.
C15_Witness ==
    \E i \in Slots :
        /\ Finished(i, "validate_request")
        /\ WellFormedEnvelope(i)
        /\ EnvelopeOf(i).signature.pad
        /\ ~EnvelopeVerifies(i)
        /\ ~EnvelopeDecrypts(i)
        /\ outcome[i].err.kind = "SignatureValidationError"
        /\ ~Invoked(i, "decrypt")

\* C16: validate_request returns a value only when all five stages have
\* succeeded, and then the decrypted object and its challenge; while it runs
\* it has returned nothing; when a stage fails, also on a decrypted payload
\* that is JSON and no object, it raises a validation error and gives the
\* caller neither decrypted content nor a challenge.
C16_FailsClosed ==
    \A i \in Slots :
        op[i] = "validate_request" =>
            /\ pc[i] # "done" => outcome[i] = Running
            /\ outcome[i].st = "returned" =>
                   /\ FirstFailingStage(i) = "done"
                   /\ Called(i, "verify_signature", TRUE)
                   /\ Called(i, "decrypt", TRUE)
                   /\ outcome[i].value = PlaintextOf(i).doc
                   /\ outcome[i].challenge = PlaintextOf(i).doc.f["challenge"]
            /\ (pc[i] = "done" /\ FirstFailingStage(i) # "done") =>
                   /\ outcome[i].st = "raised"
                   /\ outcome[i].value = JOther("none")
                   /\ outcome[i].challenge = PyNone
                   /\ outcome[i].err.kind \in
                          {"RequestValidationError", "SignatureValidationError",
                           "ServerChallengeValidationError"}
                   /\ outcome[i].err.msg \in
                          {"Missing body", "Missing signature", "Missing message",
                           "Invalid signature", "Invalid request data",
                           "Missing challenge", "Cannot validate request"}
            /\ (pc[i] = "done" /\ FirstFailingStage(i) = "done") =>
                   outcome[i].st = "returned"

\* A message that verifies and decrypts to a JSON string, list, number or
\* null: the call has decrypted it and has raised.
C16_Witness ==
    \E i \in Slots :
        /\ Finished(i, "validate_request")
        /\ EnvelopeVerifies(i)
        /\ EnvelopeDecrypts(i)
        /\ PlaintextOf(i).json
        /\ PlaintextOf(i).doc.t \in {"list", "str", "int", "none"}
        /\ Called(i, "decrypt", TRUE)
        /\ outcome[i].st = "raised"
        /\ outcome[i].err.cause = "AttributeError"

\* The context the caller gave is None or an empty dict.
NoContextGiven(i) == args[i].context \in {PyNone, PyDict(EmptyDict)}

\* C17: the request make_request sends carries the built-in fake context
\* (orgId, userId, userType, supportedDirectives) when the caller's context
\* is None or empty, and the very context of the caller when that is not
\* empty; no step of the call changes the caller's arguments.
C17_DefaultContextWhenFalsy ==
    /\ [](\A i \in Slots :
              Sent(i) =>
                  /\ NoContextGiven(i) =>
                         RequestOf(i).f["context"] =
                             PyDict([orgId |-> "fake-org-id",
                                     userId |-> "fake-user-id",
                                     userType |-> "fake",
                                     supportedDirectives |->
                                         <<"reply", "speak", "display-web-view", "sleep",
                                           "listen">>])
                  /\ ~NoContextGiven(i) => RequestOf(i).f["context"] = args[i].context)
    /\ [][\A i \in Slots :
              (op[i] = "make_request" /\ op'[i] = "make_request") => args'[i] = args[i]]_vars

\* A call given an empty context has sent the fake one, and its argument is
\* still the empty context.
C17_Witness ==
    \E i \in Slots :
        /\ Sent(i)
        /\ args[i].context = PyDict(EmptyDict)
        /\ RequestOf(i).f["context"].d.orgId = "fake-org-id"
        /\ Len(RequestOf(i).f["context"].d.supportedDirectives) = 5

====
